---- MODULE Spec2Model ----
(***************************************************************************)
(* A model of the sprite-sheet tooling: the row packer _squarify and its   *)
(* caller make_spritesheets (image_processing.py), and the frame grid and  *)
(* chroma-key step of make_anim_sheet with its colour conversion rgb2lab   *)
(* (framemaker.py).                                                        *)
(***************************************************************************)
EXTENDS Integers, Sequences, FiniteSets, TLC

VARIABLES
    pc,                 \* position in the code being run
    caller,             \* "direct": _squarify called on its own; "sheet": from make_spritesheets
    sizes,              \* the (width, height) list handed to the packer, in input order
    ssizes,             \* _squarify: sizes after the two sorts
    idx_array,          \* _squarify: original indices (0-based) in sorted order
    row_split,          \* _squarify: loop variable of the outer loop
    min_unsquareness,   \* _squarify
    output_array,       \* _squarify: rows of original indices
    output_size,        \* _squarify: <<width, height>> of the sheet
    squarify_calls,     \* how many times _squarify has been entered
    placed,             \* make_spritesheets: paste anchor of every tile pasted, by index
    saved,              \* make_spritesheets: the sheet of this view was saved
    frame_start,        \* make_anim_sheet: bpy.context.scene.frame_start
    frame_end,          \* make_anim_sheet: bpy.context.scene.frame_end
    frame_width,        \* make_anim_sheet
    frame_height,       \* make_anim_sheet
    grid_size,          \* make_anim_sheet
    sheet_size,         \* make_anim_sheet: <<sheet_width, sheet_height>>
    frame_num,          \* make_anim_sheet: loop variable of the frame loop
    frame_pastes,       \* make_anim_sheet: the paste made for every frame, in order
    output_image,       \* make_anim_sheet: the sheet image, RGBA pixels by <<row, column>>
    chroma_pct,         \* make_anim_sheet: the threshold
    output_pixels,      \* make_anim_sheet: the array made of output_image
    output_pixels_lab   \* make_anim_sheet: its Lab values

packVars == <<caller, sizes, ssizes, idx_array, row_split, min_unsquareness,
              output_array, output_size, squarify_calls, placed, saved>>

animVars == <<frame_start, frame_end, frame_width, frame_height, grid_size,
              sheet_size, frame_num, frame_pastes>>

chromaVars == <<output_image, chroma_pct, output_pixels, output_pixels_lab>>

vars == <<pc, packVars, animVars, chromaVars>>

\* ---------------------------------------------------------------- bounds
MaxTiles == 3
MaxWidth == 3
MaxHeight == 3
MaxSquares == 12
MaxSide == 2
MaxFrameStart == 2
MaxFrames == 5
MaxFrameSide == 2
SheetWidth == 2
SheetHeight == 1

\* ---------------------------------------------------------------- helpers
Max2(a, b) == IF a >= b THEN a ELSE b

Abs(a) == IF a >= 0 THEN a ELSE 0 - a

RECURSIVE SeqMax(_)
\* max([...]) of a non-empty list
SeqMax(s) == IF Len(s) = 1 THEN s[1] ELSE Max2(s[1], SeqMax(Tail(s)))

RECURSIVE SeqMin(_)
\* min([...]) of a non-empty list
SeqMin(s) == IF Len(s) = 1 THEN s[1]
             ELSE LET m == SeqMin(Tail(s)) IN IF s[1] <= m THEN s[1] ELSE m

RECURSIVE SeqSum(_)
SeqSum(s) == IF s = <<>> THEN 0 ELSE s[1] + SeqSum(Tail(s))

Widths(szs) == [i \in 1..Len(szs) |-> szs[i][1]]

Heights(szs) == [i \in 1..Len(szs) |-> szs[i][2]]

\* ---------------------------------------------------------------- _squarify
\* float("inf"): no unsquareness is greater than it
Infinity == -1

\* a variant that also breaks on a tie
ExceedsOrEquals(u, m) == m # Infinity /\ u >= m

\* a variant with the comparison turned round
ExceedsFlipped(u, m) == m # Infinity /\ u < m

Exceeds(u, m) == m # Infinity /\ u > m

RECURSIVE InsertByKey(_, _, _)
\* One step of a stable sort: e goes after every element whose key is <= its own.
InsertByKey(e, sorted, k) ==
    IF sorted = <<>> THEN <<e>>
    ELSE IF sorted[Len(sorted)][1][k] <= e[1][k] THEN Append(sorted, e)
    ELSE Append(InsertByKey(e, SubSeq(sorted, 1, Len(sorted) - 1), k), sorted[Len(sorted)])

RECURSIVE StableSortFrom(_, _, _, _)
StableSortFrom(zipped, i, acc, k) ==
    IF i > Len(zipped) THEN acc
    ELSE StableSortFrom(zipped, i + 1, InsertByKey(zipped[i], acc, k), k)

\* sorted(zipped, key=lambda e: e[0][k-1]); Python's sort is stable
StableSort(zipped, k) == StableSortFrom(zipped, 1, <<>>, k)

\* list(zip(sizes, range(len(sizes)))), sorted by width and then by height
Zipped(szs) ==
    StableSort(StableSort([i \in 1..Len(szs) |-> <<szs[i], i - 1>>], 1), 2)

WalkInit ==
    [current_sheet |-> <<>>, current_row |-> <<>>, current_row_width |-> 0,
     current_height |-> 0, max_height |-> 0, max_width |-> 0]

\* a variant that takes the width of the row closed last for the widest
WalkStepLastWidth(st, idx, width, height, row_width) ==
    LET mh == IF st.max_height >= height THEN st.max_height ELSE height
        rw == st.current_row_width + width
        row == Append(st.current_row, idx)
    IN IF rw >= row_width
       THEN [current_sheet |-> Append(st.current_sheet, row),
             current_row |-> <<>>, current_row_width |-> 0,
             current_height |-> st.current_height + mh,
             max_height |-> 0,
             max_width |-> rw]
       ELSE [st EXCEPT !.max_height = mh, !.current_row_width = rw, !.current_row = row]

\* the body of the inner loop: add one rectangle, close the row once it is wide enough
WalkStep(st, idx, width, height, row_width) ==
    LET mh == Max2(st.max_height, height)
        rw == st.current_row_width + width
        row == Append(st.current_row, idx)
    IN IF rw >= row_width
       THEN [current_sheet |-> Append(st.current_sheet, row),
             current_row |-> <<>>, current_row_width |-> 0,
             current_height |-> st.current_height + mh,
             max_height |-> 0,
             max_width |-> Max2(st.max_width, rw)]
       ELSE [st EXCEPT !.max_height = mh, !.current_row_width = rw, !.current_row = row]

RECURSIVE Walk(_, _, _, _)
\* the inner loop over zip(idx_array, sizes), from position i on
Walk(st, i, row_width, z) ==
    IF i > Len(z) THEN st
    ELSE Walk(WalkStep(st, z[i][2], z[i][1][1], z[i][1][2], row_width), i + 1, row_width, z)

\* a variant that forgets the partial row
CloseTrailingDropped(st) == st

\* the partial row left after the walk is closed too; its width is not looked at
CloseTrailing(st) ==
    IF Len(st.current_row) > 0
    THEN [st EXCEPT !.current_sheet = Append(st.current_sheet, st.current_row),
                    !.current_height = st.current_height + st.max_height]
    ELSE st

\* row_width = sum of the widths of the first split sorted rectangles
RowWidth(z, split) == SeqSum([i \in 1..split |-> z[i][1][1]])

\* one pass of the outer loop: the sheet built for this row_split, and how square it is
Candidate(z, split) ==
    LET st == CloseTrailing(Walk(WalkInit, 1, RowWidth(z, split), z))
    IN [sheet |-> st.current_sheet,
        size |-> <<st.max_width, st.current_height>>,
        unsquareness |-> Abs(st.max_width - st.current_height)]

ZipOf(szs, idxs) == [i \in 1..Len(szs) |-> <<szs[i], idxs[i]>>]

\* ---------------------------------------------------------------- make_spritesheets
\* a variant that checks the widths only
BadDimensionsWidthsOnly(szs) ==
    \E i \in 1..Len(szs) : (szs[i][1] % SeqMin(Widths(szs))) > 0

\* the test of lines 65-68 on the loaded images' sizes
BadDimensions(szs) ==
    LET smallest_width == SeqMin(Widths(szs))
        smallest_height == SeqMin(Heights(szs))
    IN \/ \E i \in 1..Len(szs) : (szs[i][1] % smallest_width) > 0
       \/ \E i \in 1..Len(szs) : (szs[i][2] % smallest_height) > 0

RECURSIVE PasteRow(_, _, _, _)
\* the inner paste loop over one row: each tile at the anchor, the anchor then moves right
PasteRow(row, j, szs, st) ==
    IF j > Len(row) THEN st
    ELSE LET idx == row[j]
             width == szs[idx + 1][1]
             height == szs[idx + 1][2]
         IN PasteRow(row, j + 1, szs,
                [pastes |-> Append(st.pastes, [idx |-> idx, x |-> st.anchor[1], y |-> st.anchor[2]]),
                 anchor |-> <<st.anchor[1] + width, st.anchor[2]>>,
                 max_height |-> Max2(st.max_height, height)])

RECURSIVE PasteRowsNoReturn(_, _, _, _)
\* a variant whose anchor does not return to x = 0 after a row
PasteRowsNoReturn(rows, r, szs, st) ==
    IF r > Len(rows) THEN st
    ELSE LET done == PasteRow(rows[r], 1, szs, [st EXCEPT !.max_height = 0])
         IN PasteRowsNoReturn(rows, r + 1, szs,
                [done EXCEPT !.anchor = <<done.anchor[1], done.anchor[2] + done.max_height>>])

RECURSIVE PasteRows(_, _, _, _)
\* the outer paste loop: after a row the anchor returns to x = 0, below the row's tallest tile
PasteRows(rows, r, szs, st) ==
    IF r > Len(rows) THEN st
    ELSE LET done == PasteRow(rows[r], 1, szs, [st EXCEPT !.max_height = 0])
         IN PasteRows(rows, r + 1, szs,
                [done EXCEPT !.anchor = <<0, done.anchor[2] + done.max_height>>])

Pastes(rows, szs) ==
    PasteRows(rows, 1, szs, [pastes |-> <<>>, anchor |-> <<0, 0>>, max_height |-> 0]).pastes

\* ---------------------------------------------------------------- actions
TileSizes == (1..MaxWidth) \X (1..MaxHeight)

SeqsUpTo(S, n) == UNION {[1..k -> S] : k \in 0..n}

AnimIdle ==
    /\ frame_start = 0
    /\ frame_end = 0
    /\ frame_width = 0
    /\ frame_height = 0
    /\ grid_size = 0
    /\ sheet_size = <<0, 0>>
    /\ frame_num = 0
    /\ frame_pastes = <<>>

ChromaIdle ==
    /\ output_image = <<>>
    /\ chroma_pct = 0
    /\ output_pixels = <<>>
    /\ output_pixels_lab = <<>>

Idle ==
    /\ ssizes = <<>>
    /\ idx_array = <<>>
    /\ row_split = 0
    /\ min_unsquareness = Infinity
    /\ output_array = <<>>
    /\ output_size = <<0, 0>>
    /\ squarify_calls = 0
    /\ placed = <<>>
    /\ saved = FALSE

\* One view group of make_spritesheets (never empty: a group exists once a file
\* is appended to it), or a direct call of _squarify on any list.
Init ==
    /\ caller \in {"direct", "sheet"}
    /\ sizes \in SeqsUpTo(TileSizes, MaxTiles)
    /\ caller = "sheet" => Len(sizes) >= 1
    /\ pc = IF caller = "sheet" THEN "validate" ELSE "squarify"
    /\ Idle
    /\ AnimIdle
    /\ ChromaIdle

\* lines 62-74: the dimension check fails and ValueError leaves make_spritesheets
ValidateRaise ==
    /\ pc = "validate"
    /\ BadDimensions(sizes)
    /\ pc' = "raised"
    /\ UNCHANGED <<animVars, chromaVars>>
    /\ UNCHANGED <<caller, sizes, ssizes, idx_array, row_split, min_unsquareness,
                   output_array, output_size, squarify_calls, placed, saved>>

\* lines 62-82: the dimension check passes, _squarify is called next
ValidatePass ==
    /\ pc = "validate"
    /\ ~BadDimensions(sizes)
    /\ pc' = "squarify"
    /\ UNCHANGED <<animVars, chromaVars>>
    /\ UNCHANGED <<caller, sizes, ssizes, idx_array, row_split, min_unsquareness,
                   output_array, output_size, squarify_calls, placed, saved>>

\* lines 106-110 on an empty list: zip(*[]) yields nothing to unpack, ValueError
SquarifyUnpackFails ==
    /\ pc = "squarify"
    /\ sizes = <<>>
    /\ squarify_calls' = squarify_calls + 1
    /\ pc' = "error"
    /\ UNCHANGED <<animVars, chromaVars>>
    /\ UNCHANGED <<caller, sizes, ssizes, idx_array, row_split, min_unsquareness,
                   output_array, output_size, placed, saved>>

\* lines 106-117: sort, and the initial answer of a single row
SquarifySort ==
    /\ pc = "squarify"
    /\ sizes # <<>>
    /\ LET z == Zipped(sizes)
       IN /\ ssizes' = [i \in 1..Len(z) |-> z[i][1]]
          /\ idx_array' = [i \in 1..Len(z) |-> z[i][2]]
    /\ squarify_calls' = squarify_calls + 1
    /\ min_unsquareness' = Infinity
    /\ output_array' = <<idx_array'>>
    /\ output_size' = <<SeqMax(Widths(ssizes')), SeqMax(Heights(ssizes'))>>
    /\ row_split' = Len(sizes)
    /\ pc' = "loop"
    /\ UNCHANGED <<animVars, chromaVars>>
    /\ UNCHANGED <<caller, sizes, placed, saved>>

\* lines 118-156, else branch: the candidate is kept; after row_split = 1 the loop ends
SquarifyKeep ==
    /\ pc = "loop"
    /\ LET c == Candidate(ZipOf(ssizes, idx_array), row_split)
       IN /\ ~Exceeds(c.unsquareness, min_unsquareness)
          /\ min_unsquareness' = c.unsquareness
          /\ output_array' = c.sheet
          /\ output_size' = c.size
    /\ IF row_split > 1
       THEN row_split' = row_split - 1 /\ pc' = "loop"
       ELSE row_split' = row_split /\ pc' = "returned"
    /\ UNCHANGED <<animVars, chromaVars>>
    /\ UNCHANGED <<caller, sizes, ssizes, idx_array, squarify_calls, placed, saved>>

\* lines 118-150: the candidate is less square than the best, break and return
SquarifyBreak ==
    /\ pc = "loop"
    /\ Exceeds(Candidate(ZipOf(ssizes, idx_array), row_split).unsquareness, min_unsquareness)
    /\ pc' = "returned"
    /\ UNCHANGED <<animVars, chromaVars>>
    /\ UNCHANGED <<caller, sizes, ssizes, idx_array, row_split, min_unsquareness,
                   output_array, output_size, squarify_calls, placed, saved>>

\* lines 82-97: a sheet of the returned size, every tile pasted, the sheet saved
PasteAndSave ==
    /\ pc = "returned"
    /\ caller = "sheet"
    /\ placed' = Pastes(output_array, sizes)
    /\ saved' = TRUE
    /\ pc' = "saved"
    /\ UNCHANGED <<animVars, chromaVars>>
    /\ UNCHANGED <<caller, sizes, ssizes, idx_array, row_split, min_unsquareness,
                   output_array, output_size, squarify_calls>>

Next ==
    \/ ValidateRaise
    \/ ValidatePass
    \/ SquarifyUnpackFails
    \/ SquarifySort
    \/ SquarifyKeep
    \/ SquarifyBreak
    \/ PasteAndSave

Spec == Init /\ [][Next]_vars

\* _squarify on N identical squares
InitSquares ==
    /\ caller = "direct"
    /\ \E n \in 1..MaxSquares, s \in 1..MaxSide : sizes = [i \in 1..n |-> <<s, s>>]
    /\ pc = "squarify"
    /\ Idle
    /\ AnimIdle
    /\ ChromaIdle

NextSquares ==
    \/ SquarifySort
    \/ SquarifyKeep
    \/ SquarifyBreak

SpecSquares == InitSquares /\ [][NextSquares]_vars

\* ---------------------------------------------------------------- make_anim_sheet: the frame grid
PackIdle ==
    /\ caller = "anim"
    /\ sizes = <<>>
    /\ Idle

\* make_anim_sheet entered, for a frame range of the scene and a frame size
InitAnim ==
    /\ pc = "grid"
    /\ frame_start \in 0..MaxFrameStart
    /\ frame_end \in frame_start..(frame_start + MaxFrames - 1)
    /\ frame_width \in 1..MaxFrameSide
    /\ frame_height \in 1..MaxFrameSide
    /\ grid_size = 1
    /\ sheet_size = <<0, 0>>
    /\ frame_num = 0
    /\ frame_pastes = <<>>
    /\ PackIdle
    /\ ChromaIdle

n_frames == frame_end - frame_start + 1

\* lines 28-29: one pass of the while loop
GridGrow ==
    /\ pc = "grid"
    /\ grid_size * grid_size < n_frames
    /\ grid_size' = grid_size + 1
    /\ UNCHANGED <<pc, frame_start, frame_end, frame_width, frame_height,
                   sheet_size, frame_num, frame_pastes, packVars, chromaVars>>

\* lines 28-35: the while loop ends, the sheet is made, the frame loop starts
GridDone ==
    /\ pc = "grid"
    /\ ~(grid_size * grid_size < n_frames)
    /\ sheet_size' = <<grid_size * frame_width, grid_size * frame_height>>
    /\ frame_num' = frame_start
    /\ pc' = "frames"
    /\ UNCHANGED <<frame_start, frame_end, frame_width, frame_height, grid_size,
                   frame_pastes, packVars, chromaVars>>

\* lines 40-41: where frame number f is pasted
FrameOffset(f) ==
    <<(f % grid_size) * frame_width, (f \div grid_size) * frame_height>>

\* lines 35-43: one frame is rendered and pasted; a paste outside the sheet is
\* clipped by the image library without an error
PasteFrame ==
    /\ pc = "frames"
    /\ frame_num <= frame_end
    /\ frame_pastes' = Append(frame_pastes,
            [frame |-> frame_num,
             x_offset |-> FrameOffset(frame_num)[1],
             y_offset |-> FrameOffset(frame_num)[2]])
    /\ frame_num' = frame_num + 1
    /\ UNCHANGED <<pc, frame_start, frame_end, frame_width, frame_height, grid_size,
                   sheet_size, packVars, chromaVars>>

\* line 35: the frame range is exhausted
FramesDone ==
    /\ pc = "frames"
    /\ frame_num > frame_end
    /\ pc' = "pasted"
    /\ UNCHANGED <<animVars, packVars, chromaVars>>

NextAnim ==
    \/ GridGrow
    \/ GridDone
    \/ PasteFrame
    \/ FramesDone

SpecAnim == InitAnim /\ [][NextAnim]_vars

\* ---------------------------------------------------------------- arithmetic of rgb2lab
\* The colour conversion works on reals. They are modelled as exact fractions
\* of naturals of any size, so that +, -, * and / lose nothing; a power with a
\* fractional exponent and a square root are rounded down to a fixed step.
Base == 10 ^ 4

Digit(a, i) == IF i >= 1 /\ i <= Len(a) THEN a[i] ELSE 0

\* the function f on 1..len as a sequence
Digits(f, len) == SubSeq(f, 1, len)

\* the digits of a without its leading zeros
Trim(a) == SubSeq(a, 1, Cardinality({i \in 1..Len(a) : \E j \in i..Len(a) : a[j] # 0}))

\* a natural below 2^31 as its base-10^4 digits, lowest first, without leading zeros
BigOf(n) == Trim(<<n % Base, (n \div Base) % Base, n \div (Base * Base)>>)

\* the digit sums of an addition with the carries added: the carry into digit
\* i comes from the nearest lower digit whose sum is not Base - 1
BigCarry(sums, len) ==
    Trim(Digits([i \in 1..len |->
                    (sums[i] + (IF \E j \in 1..(i - 1) :
                                      /\ sums[j] >= Base
                                      /\ \A l \in (j + 1)..(i - 1) : sums[l] = Base - 1
                                THEN 1 ELSE 0)) % Base],
                len))

\* a + b in len digits
BigAddTo(a, b, len) ==
    BigCarry(Digits([i \in 1..len |-> Digit(a, i) + Digit(b, i)], len), len)

BigAdd(a, b) ==
    IF Len(a) >= Len(b) THEN BigAddTo(a, b, Len(a) + 1) ELSE BigAddTo(a, b, Len(b) + 1)

\* a - b, for a >= b; the borrow into digit i comes from the nearest lower
\* digit where a and b differ
BigSub(a, b) ==
    Trim(Digits([i \in 1..Len(a) |->
                    (a[i] - Digit(b, i) + Base
                     - (IF \E j \in 1..(i - 1) :
                              /\ a[j] < Digit(b, j)
                              /\ \A l \in (j + 1)..(i - 1) : a[l] = Digit(b, l)
                        THEN 1 ELSE 0)) % Base],
                Len(a)))

\* a * m, for one digit m
BigScale(a, m) ==
    BigAdd(Digits([i \in 1..Len(a) |-> (a[i] * m) % Base], Len(a)),
           Digits([i \in 1..(Len(a) + 1) |-> IF i = 1 THEN 0 ELSE (a[i - 1] * m) \div Base],
                  Len(a) + 1))

\* a * Base^k
BigShift(a, k) == IF Len(a) = 0 THEN <<>> ELSE Digits([i \in 1..k |-> 0], k) \o a

RECURSIVE BigMulRange(_, _, _, _)
\* the sum of a * b[i] * Base^(i-1) for i in lo..hi, by halves
BigMulRange(a, b, lo, hi) ==
    IF lo = hi THEN BigShift(BigScale(a, b[lo]), lo - 1)
    ELSE BigAdd(BigMulRange(a, b, lo, (lo + hi) \div 2),
                BigMulRange(a, b, (lo + hi) \div 2 + 1, hi))

BigMul(a, b) ==
    IF Len(a) = 0 \/ Len(b) = 0 THEN <<>> ELSE BigMulRange(a, b, 1, Len(b))

RECURSIVE BigPow(_, _)
\* a ** e, for e >= 1
BigPow(a, e) ==
    IF e = 1 THEN a ELSE BigMul(BigPow(a, e \div 2), BigPow(a, e - e \div 2))

\* -1, 0 or 1 as a < b, a = b or a > b
BigCmp(a, b) ==
    IF Len(a) # Len(b) THEN (IF Len(a) < Len(b) THEN -1 ELSE 1)
    ELSE IF a = b THEN 0
    ELSE IF \E i \in 1..Len(a) : a[i] < b[i] /\ \A j \in (i + 1)..Len(a) : a[j] = b[j] THEN -1
    ELSE 1

\* how many low digits of both n and d are 0
CommonZeros(n, d) ==
    Cardinality({i \in 1..Len(n) : \A j \in 1..i : n[j] = 0 /\ Digit(d, j) = 0 /\ j <= Len(d)})

\* whether the digits n are a natural below 2^31
Small(n) == Len(n) <= 2 \/ (Len(n) = 3 /\ n[3] <= 20)

\* the natural with digits n, for Small(n)
IntOf(n) == Digit(n, 1) + Base * Digit(n, 2) + Base * Base * Digit(n, 3)

RECURSIVE GCD(_, _)
GCD(a, b) == IF b = 0 THEN a ELSE GCD(b, a % b)

\* the fraction of the naturals n and d with their common divisor g cancelled
FracLowest(neg, n, d, g) == [neg |-> neg, n |-> BigOf(n \div g), d |-> BigOf(d \div g)]

\* the fraction of the digits n and d with their z common low zero digits cancelled
FracShifted(neg, n, d, z) ==
    [neg |-> neg, n |-> SubSeq(n, z + 1, Len(n)), d |-> SubSeq(d, z + 1, Len(d))]

\* a signed fraction n/d: in lowest terms when n and d are below 2^31, and
\* otherwise with the common powers of 10^4 cancelled; zero is 0/1 and never
\* negative
Frac(neg, n, d) ==
    IF n = <<>> THEN [neg |-> FALSE, n |-> <<>>, d |-> <<1>>]
    ELSE IF Small(n) /\ Small(d)
    THEN FracLowest(neg, IntOf(n), IntOf(d), GCD(IntOf(n), IntOf(d)))
    ELSE FracShifted(neg, n, d, CommonZeros(n, d))

\* the decimal p/q, p >= 0, q > 0
Rat(p, q) == Frac(FALSE, BigOf(p), BigOf(q))

RatNeg(x) == [x EXCEPT !.neg = x.n # <<>> /\ ~x.neg]

\* a/d with the sign sa plus b/d with the sign sb
SignedSum(sa, a, sb, b, d) ==
    Frac(IF sa = sb \/ BigCmp(a, b) >= 0 THEN sa ELSE sb,
         IF sa = sb THEN BigAdd(a, b)
         ELSE IF BigCmp(a, b) >= 0 THEN BigSub(a, b) ELSE BigSub(b, a),
         d)

RatAdd(x, y) ==
    SignedSum(x.neg, IF x.d = y.d THEN x.n ELSE BigMul(x.n, y.d),
              y.neg, IF x.d = y.d THEN y.n ELSE BigMul(y.n, x.d),
              IF x.d = y.d THEN x.d ELSE BigMul(x.d, y.d))

RatSub(x, y) == RatAdd(x, RatNeg(y))

RatMul(x, y) == Frac(x.neg # y.neg, BigMul(x.n, y.n), BigMul(x.d, y.d))

\* x / y, for y # 0
RatDiv(x, y) == Frac(x.neg # y.neg, BigMul(x.n, y.d), BigMul(x.d, y.n))

\* x < y
RatLess(x, y) == RatSub(x, y).neg

RatAbs(x) == [x EXCEPT !.neg = FALSE]

\* the step of a rounded power: 10^-8
Scale == 10 ^ 8

\* the step of a rounded norm: 10^-6
NormScale == 10 ^ 6

\* whether k^e * d <= target
RootFits(d, target, e, k) == BigCmp(BigMul(BigPow(BigOf(k), e), d), target) <= 0

RECURSIVE RootSearch(_, _, _, _, _)
\* the largest k with k^e * d <= target, found one decimal digit at a time:
\* acc holds the digits above step, and the digit at step is the number of
\* j in 1..9 that fit. TLC evaluates an operator's arguments when they are first
\* used, so the test on acc has it evaluated before the next digit is sought.
RootSearch(d, target, e, acc, step) ==
    IF acc < 0 \/ step = 0 THEN acc
    ELSE RootSearch(d, target, e,
                    acc + step * Cardinality({j \in 1..9 : RootFits(d, target, e, acc + j * step)}),
                    step \div 10)

\* the floor of x ** (1/e) * scale, for 0 <= x ** (1/e) * scale < 10^9
RootFloor(x, e, scale) ==
    RootSearch(x.d, BigMul(x.n, BigPow(BigOf(scale), e)), e, 0, 10 ^ 8)

\* x ** (1/e), rounded down to a multiple of 1/scale
Root(x, e, scale) == Frac(FALSE, BigOf(RootFloor(x, e, scale)), BigOf(scale))

RECURSIVE RatPow(_, _)
\* x ** e, for e >= 1
RatPow(x, e) ==
    IF e = 1 THEN x ELSE RatMul(RatPow(x, e \div 2), RatPow(x, e - e \div 2))

\* ---------------------------------------------------------------- rgb2xyz, xyz2lab, rgb2lab
\* v ** 2.4 = (v ** 12) ** (1/5), for 0 <= v <= 1
Pow24(v) == Root(RatPow(v, 12), 5, Scale)

\* v ** (1.0 / 3.0), for 0 <= v < 8
CubeRoot(v) == Root(v, 3, Scale)

White == <<255, 255, 255>>

Black == <<0, 0, 0>>

\* the RGBA values a sheet pixel takes here: opaque white, the transparent black
\* of a fresh sheet, and two greens 11.9 apart in Lab
Palette ==
    {<<255, 255, 255, 255>>, <<0, 0, 0, 0>>, <<0, 255, 0, 255>>, <<0, 230, 0, 255>>}

\* the thresholds tried: none, the default 20.0, and one beyond every distance
Thresholds == {0, 20, 150}

Pixels == (1..SheetHeight) \X (1..SheetWidth)

RGB(px) == <<px[1], px[2], px[3]>>

\* the <<r, g, b>> values of the palette
Colours == {RGB(px) : px \in Palette}

\* the channel values of the palette
Channels == {c[i] : c \in Colours, i \in 1..3}

\* lines 79-82 for one channel value nrgb in 0..1
Gamma(nrgb) ==
    IF RatLess(Rat(4045, 100000), nrgb)
    THEN Pow24(RatDiv(RatAdd(nrgb, Rat(55, 1000)), Rat(1055, 1000)))
    ELSE RatDiv(nrgb, Rat(1292, 100))

\* lines 77-84 for one channel value 0..255
Linearize(c) == RatMul(Gamma(RatDiv(Rat(c, 1), Rat(255, 1))), Rat(100, 1))

\* Linearize of every channel value of the palette, computed once: @@ has TLC
\* build the whole function where it is defined
LinearTable == [c \in Channels |-> Linearize(c)] @@ <<>>

\* the coefficients of x, y and z, in ten-thousandths
Matrix == <<<<4124, 3576, 1805>>, <<2126, 7152, 722>>, <<193, 1192, 9505>>>>

\* nrgb[0] * m[0] + nrgb[1] * m[1] + nrgb[2] * m[2]
MatrixRow(nrgb, m) ==
    RatAdd(RatAdd(RatMul(nrgb[1], Rat(m[1], 10000)), RatMul(nrgb[2], Rat(m[2], 10000))),
           RatMul(nrgb[3], Rat(m[3], 10000)))

\* lines 86-90: <<x, y, z>> of the linear <<r, g, b>>
MatrixRows(nrgb) == Digits([i \in 1..3 |-> MatrixRow(nrgb, Matrix[i])], 3)

\* rgb2xyz for one pixel <<r, g, b>>
rgb2xyz(rgb) == MatrixRows(Digits([i \in 1..3 |-> LinearTable[rgb[i]]], 3))

\* rgb2xyz of every colour of the palette, computed once
XyzTable == [c \in Colours |-> rgb2xyz(c)] @@ <<>>

\* Observer = 2deg, Illuminant: D65
RefWhite == <<Rat(95047, 1000), Rat(100, 1), Rat(108883, 1000)>>

\* a variant that leaves out the 16/116 of the linear piece
LabCurveNoOffset(nxyz) ==
    IF RatLess(Rat(8856, 1000000), nxyz) THEN CubeRoot(nxyz)
    ELSE RatMul(nxyz, Rat(7787, 1000))

\* lines 98-101 for one component nxyz = xyz / ref
LabCurve(nxyz) ==
    IF RatLess(Rat(8856, 1000000), nxyz) THEN CubeRoot(nxyz)
    ELSE RatAdd(RatMul(nxyz, Rat(7787, 1000)), RatDiv(Rat(16, 1), Rat(116, 1)))

\* lines 103-107: <<cie_l, cie_a, cie_b>>
CieLab(nxyz) ==
    <<RatSub(RatMul(Rat(116, 1), nxyz[2]), Rat(16, 1)),
      RatMul(Rat(500, 1), RatSub(nxyz[1], nxyz[2])),
      RatMul(Rat(200, 1), RatSub(nxyz[2], nxyz[3]))>>

\* xyz2lab for one pixel <<x, y, z>>
xyz2lab(xyz) ==
    CieLab(Digits([i \in 1..3 |-> LabCurve(RatDiv(xyz[i], RefWhite[i]))], 3))

\* ---------------------------------------------------------------- make_anim_sheet: the chroma key
\* xyz2lab(rgb2xyz(c)) of every colour of the palette, computed once
LabTable == [c \in Colours |-> xyz2lab(XyzTable[c])] @@ <<>>

LabValues == {LabTable[c] : c \in Colours}

\* rgb2lab of a buffer of <<r, g, b>> pixels
rgb2lab(rgb) == [p \in DOMAIN rgb |-> LabTable[rgb[p]]]

Square(x) == RatMul(x, x)

\* the sum of the squares of the differences of u and v in the components from i on
RECURSIVE SumOfSquares(_, _, _)
SumOfSquares(u, v, i) ==
    IF i = 3 THEN Square(RatSub(u[i], v[i]))
    ELSE RatAdd(Square(RatSub(u[i], v[i])), SumOfSquares(u, v, i + 1))

\* np.linalg.norm(u - v), in steps of 1/NormScale and rounded down, for every
\* two values of S
NormsOver(S) ==
    [u \in S, v \in S |-> RootFloor(SumOfSquares(u, v, 1), 2, NormScale)] @@ <<>>

\* the norms of every two Lab values of the palette, computed once
NormTable == NormsOver(LabValues)

\* a variant with <= for <
ChromaMaskInclusive(lab, pct) ==
    [p \in DOMAIN lab |-> NormTable[lab[p], lab[<<1, 1>>]] <= pct * NormScale]

\* lines 49-53: chroma is the Lab value at [0, 0]; the mask is norms < chroma_pct
ChromaMask(lab, pct) ==
    [p \in DOMAIN lab |-> NormTable[lab[p], lab[<<1, 1>>]] < pct * NormScale]

\* the state at line 45: any sheet, any threshold
InitChroma ==
    /\ pc = "chroma"
    /\ output_image \in [Pixels -> Palette]
    /\ chroma_pct \in Thresholds
    /\ output_pixels = <<>>
    /\ output_pixels_lab = <<>>
    /\ PackIdle
    /\ AnimIdle

\* lines 46-47: the sheet as an array, and its Lab values
ToLab ==
    /\ pc = "chroma"
    /\ output_pixels' = output_image
    /\ output_pixels_lab' = rgb2lab([p \in DOMAIN output_image |-> RGB(output_image[p])])
    /\ pc' = "lab"
    /\ UNCHANGED <<output_image, chroma_pct, packVars, animVars>>

\* lines 49-54: every masked pixel becomes [0, 0, 0, 0]
ChromaKey ==
    /\ pc = "lab"
    /\ LET chroma_mask == ChromaMask(output_pixels_lab, chroma_pct)
       IN output_pixels' = [p \in DOMAIN output_pixels |->
                               IF chroma_mask[p] THEN <<0, 0, 0, 0>> ELSE output_pixels[p]]
    /\ pc' = "keyed"
    /\ UNCHANGED <<output_image, chroma_pct, output_pixels_lab, packVars, animVars>>

NextChroma ==
    \/ ToLab
    \/ ChromaKey

SpecChroma == InitChroma /\ [][NextChroma]_vars

\* ---------------------------------------------------------------- properties of the packer
N == Len(sizes)

Returned == pc \in {"returned", "saved"}

\* how often index i occurs in a row
Occurrences(row, i) == Cardinality({j \in 1..Len(row) : row[j] = i})

\* sum of the member widths, and the tallest member, of a row of original indices
RowWidthOf(row) == SeqSum([j \in 1..Len(row) |-> sizes[row[j] + 1][1]])

RowHeightOf(row) == SeqMax([j \in 1..Len(row) |-> sizes[row[j] + 1][2]])

\* C1: the rows _squarify returns partition the input indices 0..N-1: each index
\* is in exactly one row, once, and the rows hold nothing else.
C1_RowsPartitionIndices ==
    Returned =>
        /\ \A i \in 0..(N - 1) :
              \E r \in 1..Len(output_array) :
                  /\ Occurrences(output_array[r], i) = 1
                  /\ \A q \in 1..Len(output_array) :
                        q # r => Occurrences(output_array[q], i) = 0
        /\ \A r \in 1..Len(output_array) : \A j \in 1..Len(output_array[r]) :
              output_array[r][j] \in 0..(N - 1)

\* a return with a partial last row behind a full first row
C1_Witness ==
    /\ pc = "returned"
    /\ N = MaxTiles
    /\ Len(output_array) >= 2
    /\ Len(output_array[Len(output_array)]) < Len(output_array[1])

\* C2: the returned canvas is as wide as the widest returned row (the partial
\* last row included) and as high as the rows' heights together.
C2_CanvasIsMaxWidthSumHeight ==
    Returned =>
        /\ output_size[1] = SeqMax([r \in 1..Len(output_array) |-> RowWidthOf(output_array[r])])
        /\ output_size[2] = SeqSum([r \in 1..Len(output_array) |-> RowHeightOf(output_array[r])])

\* a return whose last row is narrower than the canvas and whose rows differ in height
C2_Witness ==
    /\ pc = "returned"
    /\ Len(output_array) >= 2
    /\ RowWidthOf(output_array[Len(output_array)]) < output_size[1]
    /\ RowHeightOf(output_array[1]) < RowHeightOf(output_array[Len(output_array)])

\* C3: _squarify on an empty list returns no rows and a 0 x 0 canvas.
C3_EmptyListReturnsEmptyPlan ==
    (caller = "direct" /\ sizes = <<>> /\ pc # "squarify") =>
        /\ pc = "returned"
        /\ output_array = <<>>
        /\ output_size = <<0, 0>>

CeilSqrt(n) == CHOOSE k \in 1..n : k * k >= n /\ (k - 1) * (k - 1) < n

\* C4: N identical s-by-s squares come back on a canvas whose sides differ by at
\* most s, in ceil(sqrt(N)) rows, all rows but perhaps the last equally long.
C4_SquaresPackNearSquare ==
    Returned =>
        LET s == sizes[1][1]
        IN /\ Abs(output_size[1] - output_size[2]) <= s
           /\ Len(output_array) = CeilSqrt(N)
           /\ \A r \in 1..(Len(output_array) - 1) :
                 Len(output_array[r]) = Len(output_array[1])

\* five squares: three rows of two, two and one, kept on an unsquareness tie
C4_Witness ==
    /\ pc = "returned"
    /\ N = 5
    /\ Len(output_array) = 3
    /\ Len(output_array[3]) = 1
    /\ output_size[1] < output_size[2]

\* a is no whole multiple of m
NotMultiple(a, m) == \A k \in 0..a : k * m # a

SomeTileIncompatible ==
    \E i \in 1..N :
        \/ \E j \in 1..N : sizes[j][1] <= sizes[i][1] /\ (\A l \in 1..N : sizes[j][1] <= sizes[l][1])
                           /\ NotMultiple(sizes[i][1], sizes[j][1])
        \/ \E j \in 1..N : sizes[j][2] <= sizes[i][2] /\ (\A l \in 1..N : sizes[j][2] <= sizes[l][2])
                           /\ NotMultiple(sizes[i][2], sizes[j][2])

\* C5: a view group raises exactly when some tile's width (height) is no multiple
\* of the group's smallest width (height); a group that raised never entered the
\* packer and saved nothing, any other group goes on to the packer.
C5_RaisesIffIncompatible ==
    /\ pc = "raised" =>
          /\ SomeTileIncompatible
          /\ squarify_calls = 0
          /\ ~saved
          /\ placed = <<>>
    /\ (caller = "sheet" /\ pc \notin {"validate", "raised"}) =>
          /\ ~SomeTileIncompatible
          /\ pc # "squarify" => squarify_calls = 1

\* a group raised on heights alone: every width is a multiple of the smallest
C5_Witness ==
    /\ pc = "raised"
    /\ \A i \in 1..N : ~NotMultiple(sizes[i][1], SeqMin(Widths(sizes)))

\* the unsquareness of the candidate built for every row_split, N first
Unsquareness(k) == Candidate(ZipOf(ssizes, idx_array), k).unsquareness

ReturnedUnsquareness == Abs(output_size[1] - output_size[2])

\* non-increasing from N down to some row_split, non-decreasing from there on
Unimodal ==
    \E m \in 1..N :
        /\ \A k \in (m + 1)..N : Unsquareness(k - 1) <= Unsquareness(k)
        /\ \A k \in 2..m : Unsquareness(k - 1) >= Unsquareness(k)

\* C8 as stated: for a validated list the unsquareness is unimodal in row_split
\* and the returned plan is the least unsquare of all N candidates.
C8_ReturnedIsLeastOfAll ==
    (Returned /\ caller = "sheet") =>
        /\ Unimodal
        /\ \A k \in 1..N : ReturnedUnsquareness <= Unsquareness(k)

\* C8 amended: the unsquareness never rises from row_split = N down to the
\* candidate returned, so the returned plan is the least unsquare of the
\* candidates built before the search stopped (the first strict regression, or
\* row_split = 1); candidates below the stopping point are not looked at.
C8_ReturnedIsLeastOfTried ==
    Returned =>
        LET broke == Unsquareness(row_split) # min_unsquareness
            kept == IF broke THEN row_split + 1 ELSE row_split
        IN /\ kept \in 1..N
           /\ ReturnedUnsquareness = Unsquareness(kept)
           /\ \A k \in (kept + 1)..N : Unsquareness(k - 1) <= Unsquareness(k)
           /\ \A k \in row_split..N : ReturnedUnsquareness <= Unsquareness(k)
           /\ broke => Unsquareness(row_split) > ReturnedUnsquareness
           /\ ~broke => row_split = 1

\* a validated group whose search stopped early and missed a squarer candidate
C8_Witness ==
    /\ pc = "returned"
    /\ caller = "sheet"
    /\ row_split > 1
    /\ \E k \in 1..(row_split - 1) : Unsquareness(k) < ReturnedUnsquareness

TileBox(p) ==
    [x0 |-> p.x, x1 |-> p.x + sizes[p.idx + 1][1],
     y0 |-> p.y, y1 |-> p.y + sizes[p.idx + 1][2]]

Disjoint(a, b) == a.x1 <= b.x0 \/ b.x1 <= a.x0 \/ a.y1 <= b.y0 \/ b.y1 <= a.y0

\* C9: every tile is pasted, inside the canvas _squarify returned, and no two
\* pasted tiles overlap.
C9_TilesInsideAndApart ==
    pc = "saved" =>
        /\ {placed[j].idx : j \in 1..Len(placed)} = 0..(N - 1)
        /\ \A j \in 1..Len(placed) :
              LET b == TileBox(placed[j])
              IN b.x0 >= 0 /\ b.y0 >= 0 /\ b.x1 <= output_size[1] /\ b.y1 <= output_size[2]
        /\ \A j, l \in 1..Len(placed) :
              j # l => Disjoint(TileBox(placed[j]), TileBox(placed[l]))

\* a saved sheet of several rows, one of them holding tiles of different heights
C9_Witness ==
    /\ pc = "saved"
    /\ Len(output_array) >= 2
    /\ \E r \in 1..Len(output_array) : \E j, l \in 1..Len(output_array[r]) :
          sizes[output_array[r][j] + 1][2] < sizes[output_array[r][l] + 1][2]

\* C10: grid_size is the smallest positive integer whose square holds the frames,
\* every frame of the range is pasted, no two frames at the same offsets, and
\* every frame's cell starts inside the sheet.
C10_FramesInOwnCellsInsideSheet ==
    pc = "pasted" =>
        /\ grid_size >= 1
        /\ grid_size * grid_size >= n_frames
        /\ (grid_size - 1) * (grid_size - 1) < n_frames
        /\ {frame_pastes[j].frame : j \in 1..Len(frame_pastes)} = frame_start..frame_end
        /\ \A j, l \in 1..Len(frame_pastes) :
              j # l => <<frame_pastes[j].x_offset, frame_pastes[j].y_offset>>
                       # <<frame_pastes[l].x_offset, frame_pastes[l].y_offset>>
        /\ \A j \in 1..Len(frame_pastes) :
              /\ frame_pastes[j].x_offset < sheet_size[1]
              /\ frame_pastes[j].y_offset < sheet_size[2]

\* whether the Lab distance of u and v is below t, by squares and without a
\* root, for every two values of S and every t of T
SquaresBelow(S, T) ==
    [u \in S, v \in S, t \in T |->
        t > 0 /\ RatLess(SumOfSquares(u, v, 1), Rat(t * t, 1))] @@ <<>>

SquareBelow == SquaresBelow(LabValues, Thresholds)

\* C6: after the chroma key a pixel is [0, 0, 0, 0] if its Lab distance to the
\* top-left pixel is < the threshold and is unchanged otherwise; so a threshold
\* of 0 changes nothing and a threshold > 0 always zeroes the top-left pixel.
C6_MaskIsStrictDistanceTest ==
    pc = "keyed" =>
        /\ \A p \in Pixels :
              IF SquareBelow[output_pixels_lab[p], output_pixels_lab[<<1, 1>>], chroma_pct]
              THEN output_pixels[p] = <<0, 0, 0, 0>>
              ELSE output_pixels[p] = output_image[p]
        /\ chroma_pct = 0 => output_pixels = output_image
        /\ chroma_pct > 0 => output_pixels[<<1, 1>>] = <<0, 0, 0, 0>>

\* the default threshold zeroes a pixel that is near the top-left one, not equal to it
C6_Witness ==
    /\ pc = "keyed"
    /\ chroma_pct = 20
    /\ \E p \in Pixels :
          /\ output_image[p] # output_image[<<1, 1>>]
          /\ output_image[p] # <<0, 0, 0, 0>>
          /\ output_pixels[p] = <<0, 0, 0, 0>>

Within(x, centre, tol) == ~RatLess(tol, RatAbs(RatSub(x, centre)))

IsZero(x) == x = Rat(0, 1)

\* C7 as stated: white goes to L, a, b within 0.01 of 100, 0, 0 and black to
\* exactly 0, 0, 0.
C7_WhiteAndBlackFixedPoints ==
    pc \in {"lab", "keyed"} =>
        \A p \in Pixels :
            /\ RGB(output_image[p]) = White =>
                  /\ Within(output_pixels_lab[p][1], Rat(100, 1), Rat(1, 100))
                  /\ Within(output_pixels_lab[p][2], Rat(0, 1), Rat(1, 100))
                  /\ Within(output_pixels_lab[p][3], Rat(0, 1), Rat(1, 100))
            /\ RGB(output_image[p]) = Black =>
                  \A i \in 1..3 : IsZero(output_pixels_lab[p][i])

\* C7 amended: white goes to L within 0.01 of 100, a within 0.01 of 0 and b
\* within 0.011 of 0 (b is about -0.0104); black goes to exactly 0, 0, 0.
C7_WhiteWithinWiderTolerance ==
    pc \in {"lab", "keyed"} =>
        \A p \in Pixels :
            /\ RGB(output_image[p]) = White =>
                  /\ Within(output_pixels_lab[p][1], Rat(100, 1), Rat(1, 100))
                  /\ Within(output_pixels_lab[p][2], Rat(0, 1), Rat(1, 100))
                  /\ Within(output_pixels_lab[p][3], Rat(0, 1), Rat(11, 1000))
            /\ RGB(output_image[p]) = Black =>
                  \A i \in 1..3 : IsZero(output_pixels_lab[p][i])

\* a converted sheet that holds a white and a black pixel
C7_Witness ==
    /\ pc = "lab"
    /\ \E p, q \in Pixels :
          RGB(output_image[p]) = White /\ RGB(output_image[q]) = Black

====
